---------------------------- MODULE Spec2Model ----------------------------
(***************************************************************************)
(* Model of the marker tools of the interactive map repository:            *)
(*   scripts/add_marker.py        - the single-marker tool                 *)
(*   scripts/batch_add_markers.py - the batch driver                       *)
(*                                                                         *)
(* Python strings are sequences of one-character strings, so that          *)
(* startswith, isdigit, int(), str(), zero padding, strip() and the        *)
(* lexicographic order used by list.sort are computed, not assumed.        *)
(***************************************************************************)
EXTENDS Integers, Sequences, FiniteSets, TLC

(***************************************************************************)
(* Bounds of the model.                                                    *)
(***************************************************************************)
MaxInvocations == 3
MaxLines == 3
MaxFeatures == 3
MaxSpawns == 2

(***************************************************************************)
(* Characters and strings.                                                 *)
(***************************************************************************)
\* The characters the strings of the model are made of, each with its code point
CodePoints ==
  << << "\t", 9 >>, << "\n", 10 >>, << " ", 32 >>, << "\"", 34 >>, << "#", 35 >>,
     << "-", 45 >>,
     << "0", 48 >>, << "1", 49 >>, << "2", 50 >>, << "3", 51 >>, << "4", 52 >>,
     << "5", 53 >>, << "6", 54 >>, << "7", 55 >>, << "8", 56 >>, << "9", 57 >>,
     << "A", 65 >>, << "B", 66 >>, << "C", 67 >>, << "D", 68 >>, << "Z", 90 >>,
     << "_", 95 >>,
     << "a", 97 >>, << "b", 98 >>, << "c", 99 >>, << "d", 100 >>, << "e", 101 >>,
     << "f", 102 >>, << "g", 103 >>, << "h", 104 >>, << "i", 105 >>, << "l", 108 >>, << "m", 109 >>,
     << "n", 110 >>, << "o", 111 >>, << "r", 114 >>, << "s", 115 >>, << "t", 116 >>,
     << "x", 120 >>, << "y", 121 >>, << "z", 122 >> >>

\* ord(c): the code point, which is what Python compares strings by
ord(c) == CodePoints[CHOOSE i \in 1..Len(CodePoints) : CodePoints[i][1] = c][2]

DigitChars == << "0", "1", "2", "3", "4", "5", "6", "7", "8", "9" >>

IsDigitChar(c) == \E i \in 1..10 : DigitChars[i] = c

DigitVal(c) == (CHOOSE i \in 1..10 : DigitChars[i] = c) - 1

IsSpaceChar(c) == c \in {" ", "\t", "\n"}

\* \w of the re module, on ASCII
IsWordChar(c) ==
  \/ IsDigitChar(c)
  \/ c = "_"
  \/ (ord(c) >= 65 /\ ord(c) <= 90)
  \/ (ord(c) >= 97 /\ ord(c) <= 122)

\* s[i:] of Python with 0 <= i, as a 1-based drop of the first i characters
DropFirst(s, i) == SubSeq(s, i + 1, Len(s))

\* str.startswith
startswith(s, prefix) ==
  /\ Len(prefix) <= Len(s)
  /\ SubSeq(s, 1, Len(prefix)) = prefix

\* str.isdigit: non-empty and every character a digit
isdigit(s) == Len(s) > 0 /\ \A i \in 1..Len(s) : IsDigitChar(s[i])

RECURSIVE DigitsToInt(_)
DigitsToInt(s) ==
  IF s = << >> THEN 0
  ELSE 10 * DigitsToInt(SubSeq(s, 1, Len(s) - 1)) + DigitVal(s[Len(s)])

RECURSIVE NatToDigits(_)
NatToDigits(n) ==
  IF n < 10 THEN << DigitChars[n + 1] >>
  ELSE NatToDigits(n \div 10) \o << DigitChars[(n % 10) + 1] >>

\* str(n) for an int
str(n) == IF n < 0 THEN << "-" >> \o NatToDigits(0 - n) ELSE NatToDigits(n)

\* int(s) succeeds: an optional sign and then digits only
IsIntLiteral(s) ==
  \/ isdigit(s)
  \/ Len(s) > 1 /\ s[1] \in {"-", "+"} /\ isdigit(DropFirst(s, 1))

\* int(s) for a string that is a literal
int(s) ==
  IF s[1] = "-" THEN 0 - DigitsToInt(DropFirst(s, 1))
  ELSE IF s[1] = "+" THEN DigitsToInt(DropFirst(s, 1))
  ELSE DigitsToInt(s)

RECURSIVE ZeroPad(_, _)
ZeroPad(digits, width) ==
  IF Len(digits) >= width THEN digits ELSE ZeroPad(<< "0" >> \o digits, width)

RECURSIVE LStrip(_)
LStrip(s) ==
  IF s # << >> /\ IsSpaceChar(s[1]) THEN LStrip(DropFirst(s, 1)) ELSE s

RECURSIVE RStrip(_)
RStrip(s) ==
  IF s # << >> /\ IsSpaceChar(s[Len(s)]) THEN RStrip(SubSeq(s, 1, Len(s) - 1)) ELSE s

\* str.strip
strip(s) == RStrip(LStrip(s))

\* a <= b in the string order of Python: code point by code point, a prefix first
StrLeq(a, b) ==
  \/ startswith(b, a)
  \/ \E i \in 1..Len(a) :
       /\ i <= Len(b)
       /\ SubSeq(a, 1, i - 1) = SubSeq(b, 1, i - 1)
       /\ ord(a[i]) < ord(b[i])

StrLess(a, b) == StrLeq(a, b) /\ a # b


(***************************************************************************)
(* scripts/add_marker.py: constants and pure functions.                    *)
(***************************************************************************)
S_bgm == << "b", "g", "m" >>
S_card == << "c", "a", "r", "d" >>
S_chest == << "c", "h", "e", "s", "t" >>
S_decal == << "d", "e", "c", "a", "l" >>
S_enemy == << "e", "n", "e", "m", "y" >>
S_log == << "l", "o", "g" >>

VALID_CATEGORIES == << S_bgm, S_card, S_chest, S_decal, S_enemy, S_log >>

DEFAULT_MARKERS_DIR == "assets/data/markers"

FLAG_DRY_RUN == << "-", "-", "d", "r", "y", "-", "r", "u", "n" >>
FLAG_CATEGORIES ==
  << "-", "-", "c", "a", "t", "e", "g", "o", "r", "i", "e", "s" >>

\* Path(DEFAULT_MARKERS_DIR) / f"{map_id}.geojson"
get_file_path(map_id) ==
  [parent |-> DEFAULT_MARKERS_DIR, stem |-> map_id, suffix |-> ".geojson"]

Range(seq) == { seq[i] : i \in 1..Len(seq) }

\* the sequences over S of length up to n
SeqsUpTo(S, n) == UNION { [1..k -> S] : k \in 0..n }

RECURSIVE SelectIndices(_, _, _)
\* the subsequence of seq at the indices of keep, in order
SelectIndices(seq, keep, i) ==
  IF i > Len(seq) THEN << >>
  ELSE (IF i \in keep THEN << seq[i] >> ELSE << >>) \o SelectIndices(seq, keep, i + 1)

\* argparse: an argument string that is taken as an option, not as a positional
\* (it starts with "-", is not a negative number and holds no space)
LooksLikeOption(a) ==
  /\ Len(a) > 0
  /\ a[1] = "-"
  /\ ~ (Len(a) > 1 /\ isdigit(DropFirst(a, 1)))
  /\ \A i \in 1..Len(a) : a[i] # " "

\* parse_arguments: the namespace, or the exit that argparse takes.
\* Option strings come after the positionals, as in the documented usage.
parse_arguments(argv) ==
  LET optIdx == { i \in 1..Len(argv) : LooksLikeOption(argv[i]) }
      opts == { argv[i] : i \in optIdx }
      pos == SelectIndices(argv, (1..Len(argv)) \ optIdx, 1)
      categories == FLAG_CATEGORIES \in opts
      dry_run == FLAG_DRY_RUN \in opts
  IN  IF \/ opts \ {FLAG_DRY_RUN, FLAG_CATEGORIES} # {}
         \/ Len(pos) > 5
         \/ Len(pos) >= 2 /\ pos[2] \notin Range(VALID_CATEGORIES)
         \/ Len(pos) >= 4 /\ ~ IsIntLiteral(pos[4])
         \/ Len(pos) >= 5 /\ ~ IsIntLiteral(pos[5])
      THEN [status |-> "error", exit |-> 2]
      ELSE IF categories
      THEN [status |-> "categories", exit |-> 0]
      ELSE IF Len(pos) < 5
      THEN [status |-> "error", exit |-> 2]
      ELSE [status |-> "ok", dry_run |-> dry_run, map_id |-> pos[1],
            category |-> pos[2], name |-> pos[3],
            x |-> int(pos[4]), y |-> int(pos[5])]

\* a validate_inputs that tests the name without strip()
validate_inputs_unstripped(args) ==
  /\ ~ (args.x < 0 \/ args.y < 0)
  /\ args.name # << >>

\* validate_inputs: TRUE when it returns, FALSE when it exits with status 1
validate_inputs(args) ==
  /\ ~ (args.x < 0 \/ args.y < 0)
  /\ strip(args.name) # << >>

EmptyFeatureCollection == [type |-> "FeatureCollection", features |-> << >>]

NoFile == [exists |-> FALSE]

\* load_geojson: the document, or the ValueError it raises
load_geojson(file, io) ==
  IF file.exists
  THEN IF io # "ok" THEN [ok |-> FALSE, error |-> "Error reading file"]
       ELSE IF ~ file.valid_json THEN [ok |-> FALSE, error |-> "Invalid JSON format"]
       ELSE IF ~ ("type" \in DOMAIN file.data /\ file.data.type = "FeatureCollection")
       THEN [ok |-> FALSE, error |-> "File is not a valid GeoJSON FeatureCollection"]
       ELSE IF "features" \notin DOMAIN file.data
       THEN [ok |-> FALSE, error |-> "Invalid GeoJSON: 'features' must be a list"]
       ELSE [ok |-> TRUE, data |-> file.data]
  ELSE [ok |-> TRUE, data |-> EmptyFeatureCollection]

\* save_geojson: the file system after the call, and whether it returned
save_geojson(fsys, file_path, data, io) ==
  IF io = "mkdir_failed"
  THEN [ok |-> FALSE, fs |-> fsys]
  ELSE LET made == [fsys EXCEPT !.dirs = @ \cup {file_path.parent}]
       IN  CASE io = "open_failed" -> [ok |-> FALSE, fs |-> made]
             [] io = "write_failed" ->
                  [ok |-> FALSE,
                   fs |-> [made EXCEPT !.files[file_path] =
                                         [exists |-> TRUE, valid_json |-> FALSE]]]
             [] OTHER ->
                  [ok |-> TRUE,
                   fs |-> [made EXCEPT !.files[file_path] =
                                         [exists |-> TRUE, valid_json |-> TRUE,
                                          data |-> data]]]

HasId(feature) ==
  "properties" \in DOMAIN feature /\ "id" \in DOMAIN feature.properties

HasName(feature) ==
  "properties" \in DOMAIN feature /\ "name" \in DOMAIN feature.properties

HasCoords(feature) ==
  /\ "geometry" \in DOMAIN feature
  /\ "coordinates" \in DOMAIN feature.geometry
  /\ Len(feature.geometry.coordinates) >= 2

FeaturesOf(geojson_data) ==
  IF "features" \in DOMAIN geojson_data THEN geojson_data.features ELSE << >>

\* extract_existing_data
extract_existing_data(geojson_data) ==
  LET fs == FeaturesOf(geojson_data)
      idx == 1..Len(fs)
  IN  [ids |-> { fs[i].properties.id : i \in { j \in idx : HasId(fs[j]) } },
       coords |-> { << fs[i].geometry.coordinates[1], fs[i].geometry.coordinates[2] >> :
                      i \in { j \in idx : HasCoords(fs[j]) } },
       names |-> { fs[i].properties.name : i \in { j \in idx : HasName(fs[j]) } }]

SetMax(S) == CHOOSE m \in S : \A k \in S : k <= m

\* a loop that takes the number after the first hyphen of every id, whatever its map
max_number_all_maps(map_id, existing_ids) ==
  LET AfterHyphen(e) == DropFirst(e, CHOOSE i \in 1..Len(e) : e[i] = "-")
  IN  SetMax({0} \cup { int(AfterHyphen(e)) :
                          e \in { d \in existing_ids :
                                    /\ \E i \in 1..Len(d) : d[i] = "-"
                                    /\ isdigit(DropFirst(d, CHOOSE i \in 1..Len(d) : d[i] = "-")) } })

\* the loop of generate_next_id: the highest existing number for this map
max_number(map_id, existing_ids) ==
  LET prefix == map_id \o << "-" >>
  IN  SetMax({0} \cup { int(DropFirst(e, Len(prefix))) :
                          e \in { d \in existing_ids :
                                    /\ startswith(d, prefix)
                                    /\ isdigit(DropFirst(d, Len(prefix))) } })

\* f"{n:03d}"
format_03d(n) == ZeroPad(str(n), 3)

\* a generate_next_id that hands out the highest number again
generate_next_id_reuse(map_id, existing_ids) ==
  (map_id \o << "-" >>) \o format_03d(max_number(map_id, existing_ids))

\* generate_next_id
generate_next_id(map_id, existing_ids) ==
  (map_id \o << "-" >>) \o format_03d(max_number(map_id, existing_ids) + 1)

\* a check that stops at the first collision it finds
duplicate_warnings_first_only(marker_id, x, y, name, existing_ids, existing_coords, existing_names) ==
  IF marker_id \in existing_ids THEN << "ID already exists" >>
  ELSE IF << x, y >> \in existing_coords THEN << "Coordinates already exist" >>
  ELSE IF name \in existing_names THEN << "Name already exists" >>
  ELSE << >>

\* the warnings list that check_duplicates builds
duplicate_warnings(marker_id, x, y, name, existing_ids, existing_coords, existing_names) ==
  (IF marker_id \in existing_ids THEN << "ID already exists" >> ELSE << >>)
  \o (IF << x, y >> \in existing_coords THEN << "Coordinates already exist" >> ELSE << >>)
  \o (IF name \in existing_names THEN << "Name already exists" >> ELSE << >>)

\* check_duplicates
check_duplicates(marker_id, x, y, name, existing_ids, existing_coords, existing_names) ==
  duplicate_warnings(marker_id, x, y, name,
                     existing_ids, existing_coords, existing_names) = << >>

\* create_marker_feature
create_marker_feature(marker_id, name, category, x, y) ==
  [type |-> "Feature",
   geometry |-> [type |-> "Point", coordinates |-> << x, y >>],
   properties |-> [id |-> marker_id, name |-> name, category |-> category]]

\* the sort key of add_marker_to_geojson: f.get('properties', {}).get('id', '')
SortKey(feature) == IF HasId(feature) THEN feature.properties.id ELSE << >>

RECURSIVE InsertByKey(_, _)
\* one step of a stable sort: f goes after every element whose key is <= its own
InsertByKey(sorted, f) ==
  IF sorted = << >> THEN << f >>
  ELSE IF StrLeq(SortKey(sorted[Len(sorted)]), SortKey(f))
       THEN Append(sorted, f)
       ELSE Append(InsertByKey(SubSeq(sorted, 1, Len(sorted) - 1), f), sorted[Len(sorted)])

RECURSIVE SortedPrefix(_, _)
SortedPrefix(features, n) ==
  IF n = 0 THEN << >> ELSE InsertByKey(SortedPrefix(features, n - 1), features[n])

\* list.sort(key=...): the stable sort of the features by key
sort_features(features) == SortedPrefix(features, Len(features))

\* an add_marker_to_geojson that appends and does not sort
add_marker_to_geojson_unsorted(geojson_data, marker_feature) ==
  [k \in DOMAIN geojson_data \cup {"features"} |->
     IF k = "features" THEN Append(FeaturesOf(geojson_data), marker_feature)
     ELSE geojson_data[k]]

\* add_marker_to_geojson
add_marker_to_geojson(geojson_data, marker_feature) ==
  LET withFeatures == IF "features" \in DOMAIN geojson_data
                      THEN geojson_data
                      ELSE [k \in DOMAIN geojson_data \cup {"features"} |->
                              IF k = "features" THEN << >> ELSE geojson_data[k]]
  IN  [withFeatures EXCEPT
         !.features = sort_features(Append(withFeatures.features, marker_feature))]


(***************************************************************************)
(* The inputs of the model: map identifiers, argument strings, and the     *)
(* documents found on disk (hand-edited files included).                   *)
(***************************************************************************)
Map_f == << "f" >>
Map_d == << "d" >>
MapIds == {Map_f, Map_d}

Id_f001 == << "f", "-", "0", "0", "1" >>
Id_f002 == << "f", "-", "0", "0", "2" >>
Id_f0003 == << "f", "-", "0", "0", "0", "3" >>
Id_f999 == << "f", "-", "9", "9", "9" >>
Id_fx == << "f", "-", "x" >>
Id_d001 == << "d", "-", "0", "0", "1" >>

CategoryArgs == {S_card, << "x" >>}
NameArgs == {<< >>, << " " >>, << "A" >>, << "B" >>}
XArgs == {-1, 0, 1}
YArgs == {-1, 0}

\* python scripts/add_marker.py {map_id} {category} "{name}" {x} {y} [--dry-run]
UsageArgvs ==
  { << m, c, n, str(x), str(y) >> \o (IF d THEN << FLAG_DRY_RUN >> ELSE << >>) :
      m \in MapIds, c \in CategoryArgs, n \in NameArgs,
      x \in XArgs, y \in YArgs, d \in BOOLEAN }

OtherArgvs == {<< FLAG_CATEGORIES >>, << Map_f, S_card >>}

Argvs == UsageArgvs \cup OtherArgvs

Paths == { get_file_path(m) : m \in MapIds }

FileOf(data) == [exists |-> TRUE, valid_json |-> TRUE, data |-> data]

Doc(features) == [type |-> "FeatureCollection", features |-> features]

\* a document as the tool leaves it
SortedDoc == Doc(<< create_marker_feature(Id_f001, << "A" >>, S_card, 0, 0) >>)

\* a hand-edited document: unsorted, with an id of another map, an id whose
\* suffix is no number, the highest 3-digit number and a feature without properties
EditedDoc ==
  Doc(<< create_marker_feature(Id_f999, << "Z" >>, S_log, 9, 9),
         [type |-> "Feature", geometry |-> [type |-> "Point", coordinates |-> << 7 >>]],
         create_marker_feature(Id_fx, << "Y" >>, S_bgm, 8, 8),
         create_marker_feature(Id_d001, << "B" >>, S_chest, 1, 1) >>)

InitialFiles ==
  { NoFile,
    [exists |-> TRUE, valid_json |-> FALSE],
    FileOf([type |-> "Feature"]),
    FileOf([type |-> "FeatureCollection"]),
    FileOf(EmptyFeatureCollection),
    FileOf(SortedDoc),
    FileOf(EditedDoc) }

InitialFileSystems ==
  { [dirs |-> {}, files |-> [p \in Paths |-> NoFile]] }
  \cup { [dirs |-> {DEFAULT_MARKERS_DIR},
          files |-> [p \in Paths |-> IF p = get_file_path(Map_f) THEN ff ELSE fd]] :
           ff \in InitialFiles, fd \in {NoFile, FileOf(EditedDoc)} }

(***************************************************************************)
(* State.                                                                  *)
(***************************************************************************)
Procs == {1, 2}

VARIABLES
  fs,            \* the file system: existing directories and the content of each path
  pc,            \* per tool process: the call of main() it is about to make
  argv,          \* per tool process: sys.argv[1:]
  local,         \* per tool process: the local variables of main()
  exit_code,     \* per tool process: the exit status, -1 while it has none
  hist,          \* per tool process, for the record: the file system at its start,
                 \* its numbers of load_geojson and save_geojson calls, the
                 \* warnings of its check_duplicates call, and at its save_geojson
                 \* call the document it had loaded, its marker and the document
                 \* it handed to save_geojson
  invocations,   \* the number of tool invocations so far
  call,          \* the last direct call of a function, as the tests make them
  batch          \* the batch driver: its position, input and counters

vars == << fs, pc, argv, local, exit_code, hist, invocations, call, batch >>

NoLocals == [status |-> "none"]

NoHist == [fs_at_start |-> [dirs |-> {}, files |-> [p \in Paths |-> NoFile]],
           loads |-> 0, saves |-> 0, checked |-> FALSE, warnings |-> << >>,
           loaded |-> [type |-> "none"], marker |-> [type |-> "none"],
           written |-> [type |-> "none"]]

NoCall == [fn |-> "none"]

BatchIdle == [pc |-> "idle"]

InitTool ==
  /\ fs \in InitialFileSystems
  /\ pc = [p \in Procs |-> "idle"]
  /\ argv = [p \in Procs |-> << >>]
  /\ local = [p \in Procs |-> NoLocals]
  /\ exit_code = [p \in Procs |-> -1]
  /\ hist = [p \in Procs |-> NoHist]
  /\ invocations = 0

Init ==
  /\ InitTool
  /\ call = NoCall
  /\ batch = BatchIdle

(***************************************************************************)
(* main() of scripts/add_marker.py, one action per call it makes.          *)
(***************************************************************************)
Running(p) == pc[p] \notin {"idle", "exited"}

\* sys.exit(code), or the return of main(): the process is over
Exit(p, code) ==
  /\ pc' = [pc EXCEPT ![p] = "exited"]
  /\ exit_code' = [exit_code EXCEPT ![p] = code]
  /\ local' = [local EXCEPT ![p] = NoLocals]

Goto(p, step, locals) ==
  /\ pc' = [pc EXCEPT ![p] = step]
  /\ local' = [local EXCEPT ![p] = locals]
  /\ UNCHANGED exit_code

\* the tool is started with an argument vector, in the first free process slot
Start(p) ==
  /\ pc[p] = "idle"
  /\ \A q \in Procs : q < p => pc[q] # "idle"
  /\ invocations < MaxInvocations
  /\ \E a \in Argvs : argv' = [argv EXCEPT ![p] = a]
  /\ pc' = [pc EXCEPT ![p] = "parse_arguments"]
  /\ local' = [local EXCEPT ![p] = NoLocals]
  /\ exit_code' = [exit_code EXCEPT ![p] = -1]
  /\ hist' = [hist EXCEPT ![p] = [NoHist EXCEPT !.fs_at_start = fs]]
  /\ invocations' = invocations + 1
  /\ UNCHANGED << fs, call, batch >>

\* args = parse_arguments(); if args.categories: show_categories()
ParseArguments(p) ==
  /\ pc[p] = "parse_arguments"
  /\ LET args == parse_arguments(argv[p])
     IN  IF args.status = "ok"
         THEN Goto(p, "validate_inputs", [args |-> args])
         ELSE Exit(p, args.exit)
  /\ UNCHANGED << fs, argv, hist, invocations, call, batch >>

\* validate_inputs(args)
ValidateInputs(p) ==
  /\ pc[p] = "validate_inputs"
  /\ IF validate_inputs(local[p].args)
     THEN Goto(p, "load_geojson", local[p])
     ELSE Exit(p, 1)
  /\ UNCHANGED << fs, argv, hist, invocations, call, batch >>

\* file_path = get_file_path(args.map_id); geojson_data = load_geojson(file_path)
LoadGeojson(p) ==
  /\ pc[p] = "load_geojson"
  /\ LET file_path == get_file_path(local[p].args.map_id)
         file == fs.files[file_path]
     IN  \E io \in (IF file.exists THEN {"ok", "read_failed"} ELSE {"ok"}) :
            LET loaded == load_geojson(file, io)
            IN  IF loaded.ok
                THEN Goto(p, "extract_existing_data",
                          [args |-> local[p].args, file_path |-> file_path,
                           geojson_data |-> loaded.data])
                ELSE Exit(p, 1)
  /\ hist' = [hist EXCEPT ![p].loads = @ + 1]
  /\ UNCHANGED << fs, argv, invocations, call, batch >>

With(r, k, v) == [f \in DOMAIN r \cup {k} |-> IF f = k THEN v ELSE r[f]]

\* existing_ids, existing_coords, existing_names = extract_existing_data(geojson_data)
ExtractExistingData(p) ==
  /\ pc[p] = "extract_existing_data"
  /\ Goto(p, "generate_next_id",
          With(local[p], "existing", extract_existing_data(local[p].geojson_data)))
  /\ UNCHANGED << fs, argv, hist, invocations, call, batch >>

\* marker_id = generate_next_id(args.map_id, existing_ids)
GenerateNextId(p) ==
  /\ pc[p] = "generate_next_id"
  /\ Goto(p, "check_duplicates",
          With(local[p], "marker_id",
               generate_next_id(local[p].args.map_id, local[p].existing.ids)))
  /\ UNCHANGED << fs, argv, hist, invocations, call, batch >>

\* a main() that goes on after check_duplicates has returned False
CheckDuplicates_ignored(p) ==
  /\ pc[p] = "check_duplicates"
  /\ Goto(p, "create_marker_feature", local[p])
  /\ hist' = [hist EXCEPT
       ![p].checked = TRUE,
       ![p].warnings =
          LET l == local[p]
          IN  duplicate_warnings(l.marker_id, l.args.x, l.args.y, l.args.name,
                                 l.existing.ids, l.existing.coords, l.existing.names)]
  /\ UNCHANGED << fs, argv, invocations, call, batch >>

\* if not check_duplicates(...): sys.exit(1)
CheckDuplicates(p) ==
  /\ pc[p] = "check_duplicates"
  /\ LET l == local[p]
     IN  IF check_duplicates(l.marker_id, l.args.x, l.args.y, l.args.name,
                             l.existing.ids, l.existing.coords, l.existing.names)
         THEN Goto(p, "create_marker_feature", l)
         ELSE Exit(p, 1)
  /\ hist' = [hist EXCEPT
       ![p].checked = TRUE,
       ![p].warnings =
          LET l == local[p]
          IN  duplicate_warnings(l.marker_id, l.args.x, l.args.y, l.args.name,
                                 l.existing.ids, l.existing.coords, l.existing.names)]
  /\ UNCHANGED << fs, argv, invocations, call, batch >>

\* a main() without the test of args.dry_run
CreateMarkerFeature_no_preview(p) ==
  /\ pc[p] = "create_marker_feature"
  /\ LET l == local[p]
     IN  Goto(p, "add_marker_to_geojson",
              With(l, "marker_feature",
                   create_marker_feature(l.marker_id, l.args.name,
                                         l.args.category, l.args.x, l.args.y)))
  /\ UNCHANGED << fs, argv, hist, invocations, call, batch >>

\* marker_feature = create_marker_feature(...); if args.dry_run: preview and return
CreateMarkerFeature(p) ==
  /\ pc[p] = "create_marker_feature"
  /\ LET l == local[p]
     IN  IF l.args.dry_run
         THEN Exit(p, 0)
         ELSE Goto(p, "add_marker_to_geojson",
                   With(l, "marker_feature",
                        create_marker_feature(l.marker_id, l.args.name,
                                              l.args.category, l.args.x, l.args.y)))
  /\ UNCHANGED << fs, argv, hist, invocations, call, batch >>

\* updated_geojson = add_marker_to_geojson(geojson_data, marker_feature)
AddMarkerToGeojson(p) ==
  /\ pc[p] = "add_marker_to_geojson"
  /\ Goto(p, "save_geojson",
          With(local[p], "updated_geojson",
               add_marker_to_geojson(local[p].geojson_data, local[p].marker_feature)))
  /\ UNCHANGED << fs, argv, hist, invocations, call, batch >>

SaveOutcomes == {"ok", "mkdir_failed", "open_failed", "write_failed"}

\* a save_geojson that reads the file again and adds its marker to what it finds
SaveGeojson_reload(p) ==
  /\ pc[p] = "save_geojson"
  /\ \E io \in SaveOutcomes :
       LET file == fs.files[local[p].file_path]
           found == IF file.exists /\ file.valid_json THEN file.data
                    ELSE local[p].geojson_data
           saved == save_geojson(fs, local[p].file_path,
                                 add_marker_to_geojson(found, local[p].marker_feature),
                                 io)
       IN  /\ fs' = saved.fs
           /\ Exit(p, IF saved.ok THEN 0 ELSE 1)
  /\ hist' = [hist EXCEPT ![p].saves = @ + 1,
                          ![p].loaded = local[p].geojson_data,
                          ![p].marker = local[p].marker_feature,
                          ![p].written = local[p].updated_geojson]
  /\ UNCHANGED << argv, invocations, call, batch >>

\* save_geojson(file_path, updated_geojson), then the report and exit status 0;
\* an error of the file system ends the process with exit status 1
SaveGeojson(p) ==
  /\ pc[p] = "save_geojson"
  /\ \E io \in SaveOutcomes :
       LET saved == save_geojson(fs, local[p].file_path, local[p].updated_geojson, io)
       IN  /\ fs' = saved.fs
           /\ Exit(p, IF saved.ok THEN 0 ELSE 1)
  /\ hist' = [hist EXCEPT ![p].saves = @ + 1,
                          ![p].loaded = local[p].geojson_data,
                          ![p].marker = local[p].marker_feature,
                          ![p].written = local[p].updated_geojson]
  /\ UNCHANGED << argv, invocations, call, batch >>

\* one invocation at a time: the tool is started when no other process exists
Invoke(p) ==
  /\ \A q \in Procs : pc[q] = "idle"
  /\ Start(p)

\* the process is gone once its exit status has been collected
Wait(p) ==
  /\ pc[p] = "exited"
  /\ pc' = [pc EXCEPT ![p] = "idle"]
  /\ argv' = [argv EXCEPT ![p] = << >>]
  /\ exit_code' = [exit_code EXCEPT ![p] = -1]
  /\ hist' = [hist EXCEPT ![p] = NoHist]
  /\ UNCHANGED << fs, local, invocations, call, batch >>

ToolStep(p) ==
  \/ ParseArguments(p)
  \/ ValidateInputs(p)
  \/ LoadGeojson(p)
  \/ ExtractExistingData(p)
  \/ GenerateNextId(p)
  \/ CheckDuplicates(p)
  \/ CreateMarkerFeature(p)
  \/ AddMarkerToGeojson(p)
  \/ SaveGeojson(p)

Next == \E p \in Procs : Invoke(p) \/ ToolStep(p) \/ Wait(p)

Spec == Init /\ [][Next]_vars


\* main() of scripts/add_marker.py as one run from start to exit, for a caller that
\* waits for the process: its exit status and the file system it leaves
main(args_in, fsys, io_load, io_save) ==
  LET args == parse_arguments(args_in)
  IN  IF args.status # "ok" THEN [exit |-> args.exit, fs |-> fsys]
      ELSE IF ~ validate_inputs(args) THEN [exit |-> 1, fs |-> fsys]
      ELSE
        LET file_path == get_file_path(args.map_id)
            loaded == load_geojson(fsys.files[file_path], io_load)
        IN  IF ~ loaded.ok THEN [exit |-> 1, fs |-> fsys]
            ELSE
              LET existing == extract_existing_data(loaded.data)
                  marker_id == generate_next_id(args.map_id, existing.ids)
              IN  IF ~ check_duplicates(marker_id, args.x, args.y, args.name,
                                        existing.ids, existing.coords, existing.names)
                  THEN [exit |-> 1, fs |-> fsys]
                  ELSE IF args.dry_run THEN [exit |-> 0, fs |-> fsys]
                  ELSE
                    LET marker_feature ==
                          create_marker_feature(marker_id, args.name, args.category,
                                                args.x, args.y)
                        saved == save_geojson(fsys, file_path,
                                              add_marker_to_geojson(loaded.data,
                                                                    marker_feature),
                                              io_save)
                    IN  [exit |-> IF saved.ok THEN 0 ELSE 1, fs |-> saved.fs]

\* the process of the step actions ends as main() says
MainAgreesWithSteps ==
  \A p \in Procs :
    pc[p] = "exited" =>
      \E io_load \in {"ok", "read_failed"}, io_save \in SaveOutcomes :
        main(argv[p], hist[p].fs_at_start, io_load, io_save)
          = [exit |-> exit_code[p], fs |-> fs]

(***************************************************************************)
(* scripts/batch_add_markers.py.                                           *)
(***************************************************************************)
\* the end of the longest run of characters with P that starts at index i of s
\* (i - 1 when s[i] is no such character)
RunEnd(s, i, P(_)) ==
  CHOOSE j \in (i - 1)..Len(s) :
    /\ \A k \in i..j : P(s[k])
    /\ j = Len(s) \/ ~ P(s[j + 1])

\* the elements of ^(\w+)\s+(\d+)\s+(\d+)\s+(\w+)\s+"([^"]*)"(?:\s+"([^"]*)")? in
\* order: w for \w+, s for \s+, d for \d+, q for the quote, n for [^"]*
PATTERN ==
  << "w", "s", "d", "s", "d", "s", "w", "s", "q", "n", "q", "s", "q", "n", "q" >>

\* where the pattern element of this kind, matched greedily from index i, ends
\* (i - 1 when it matches no character)
ElementEnd(line, i, kind) ==
  CASE kind = "w" -> RunEnd(line, i, IsWordChar)
    [] kind = "s" -> RunEnd(line, i, IsSpaceChar)
    [] kind = "d" -> RunEnd(line, i, IsDigitChar)
    [] kind = "q" -> IF i <= Len(line) /\ line[i] = "\"" THEN i ELSE i - 1
    [] OTHER -> LET NotQuote(c) == c # "\"" IN RunEnd(line, i, NotQuote)

RECURSIVE ElementEnds(_, _, _)
\* the ends of the elements k.. of the pattern, the one before having ended at prev
ElementEnds(line, prev, k) ==
  IF k > Len(PATTERN) THEN << >>
  ELSE CHOOSE ends \in { << e >> \o ElementEnds(line, e, k + 1) :
                           e \in {ElementEnd(line, prev + 1, PATTERN[k])} } : TRUE

\* re.match of the pattern on a line: no element gains by giving characters back, as
\* each is followed by an element that cannot start with them
match_pattern(line) ==
  CHOOSE m \in
    { LET start(k) == IF k = 1 THEN 1 ELSE ends[k - 1] + 1
          ok(k) == PATTERN[k] = "n" \/ ends[k] >= start(k)
          group(k) == SubSeq(line, start(k), ends[k])
          optional == \A k \in 12..15 : ok(k)
      IN  IF ~ \A k \in 1..11 : ok(k) THEN [matched |-> FALSE]
          ELSE [matched |-> TRUE, map_id |-> group(1), x |-> group(3), y |-> group(5),
                category |-> group(7), name |-> group(10),
                has_description |-> optional,
                description |-> IF optional THEN group(14) ELSE << >>] :
      ends \in {ElementEnds(line, 0, 1)} } : TRUE

\* parse_marker_line: the marker data, or None
parse_marker_line(raw) ==
  CHOOSE marker_data \in
    { IF line = << >> \/ line[1] = "#" THEN [none |-> TRUE]
      ELSE CHOOSE parsed \in
             { IF ~ m.matched THEN [none |-> TRUE]
               ELSE [none |-> FALSE, map_id |-> m.map_id, x |-> int(m.x), y |-> int(m.y),
                     category |-> m.category, name |-> m.name,
                     description |-> m.description] :
               m \in {match_pattern(line)} } : TRUE :
      line \in {strip(raw)} } : TRUE

\* the command line of run_add_marker, after 'python', 'scripts/add_marker.py'
command_of(marker_data, dry_run) ==
  << marker_data.map_id, str(marker_data.x), str(marker_data.y),
     marker_data.category, marker_data.name >>
  \o (IF marker_data.description # << >> THEN << marker_data.description >> ELSE << >>)
  \o (IF dry_run THEN << FLAG_DRY_RUN >> ELSE << >>)

\* subprocess.run(cmd, capture_output=True, text=True, check=True): the tool runs to
\* its exit, and CalledProcessError is raised unless its status is 0
subprocess_run(cmd, fsys, io_load, io_save) ==
  CHOOSE result \in
    { [success |-> ran.exit = 0, exit |-> ran.exit, fs |-> ran.fs] :
      ran \in {main(cmd, fsys, io_load, io_save)} } : TRUE

\* run_add_marker
run_add_marker(marker_data, dry_run, fsys, io_load, io_save) ==
  CHOOSE result \in
    { subprocess_run(cmd, fsys, io_load, io_save) :
      cmd \in {command_of(marker_data, dry_run)} } : TRUE

Sp == << " " >>
Quoted(t) == (<< "\"" >> \o t) \o << "\"" >>

\* f 0 0 card "A"
Line_f_A ==
  Map_f \o Sp \o << "0" >> \o Sp \o << "0" >> \o Sp \o S_card \o Sp
    \o Quoted(<< "A" >>) \o << "\n" >>
\* d 1 0 log "B" "n", indented
Line_d_B ==
  Sp \o Map_d \o Sp \o << "1" >> \o Sp \o << "0" >> \o Sp \o S_log \o Sp
    \o Quoted(<< "B" >>) \o Sp \o Quoted(<< "n" >>) \o << "\n" >>
\* f 007 0 x "A B": leading zeros, a category the tool does not know, a name with a space
Line_f_x ==
  Map_f \o Sp \o << "0", "0", "7" >> \o << "\t" >> \o << "0" >> \o Sp \o << "x" >> \o Sp
    \o Quoted(<< "A", " ", "B" >>)
Line_blank == << " ", "\n" >>
\* # f 0 0 card "A", indented
Line_comment == Sp \o << "#" >> \o Sp \o Line_f_A
\* f -1 0 card "A"
Line_negative ==
  Map_f \o Sp \o << "-", "1" >> \o Sp \o << "0" >> \o Sp \o S_card \o Sp
    \o Quoted(<< "A" >>) \o << "\n" >>
\* f 0 0 card A
Line_unquoted ==
  Map_f \o Sp \o << "0" >> \o Sp \o << "0" >> \o Sp \o S_card \o Sp \o << "A" >> \o << "\n" >>

BatchLines ==
  { Line_f_A, Line_d_B, Line_f_x, Line_blank, Line_comment,
    Line_negative, Line_unquoted }

InputFiles == SeqsUpTo(BatchLines, MaxLines)

\* parse_marker_line on each line of the inputs (it depends on the line alone)
marker_data_of == [line \in BatchLines |-> parse_marker_line(line)]

BatchFileSystems ==
  { f \in InitialFileSystems :
      /\ f.files[get_file_path(Map_d)] = NoFile
      /\ f.dirs = {} \/ f.files[get_file_path(Map_f)] = FileOf(SortedDoc) }

InitBatch ==
  /\ fs \in BatchFileSystems
  /\ pc = [p \in Procs |-> "idle"]
  /\ argv = [p \in Procs |-> << >>]
  /\ local = [p \in Procs |-> NoLocals]
  /\ exit_code = [p \in Procs |-> -1]
  /\ hist = [p \in Procs |-> NoHist]
  /\ invocations = 0
  /\ call = NoCall
  /\ batch = BatchIdle

\* main() up to the loop: the input file is read, or the run ends with status 1
BatchStart ==
  /\ batch.pc = "idle"
  /\ \E dry_run \in BOOLEAN :
       \/ batch' = [pc |-> "exited", exit |-> 1, input_exists |-> FALSE]
       \/ \E lines \in InputFiles :
            batch' = [pc |-> "loop", input_exists |-> TRUE, dry_run |-> dry_run,
                      lines |-> lines, line_num |-> 1,
                      success_count |-> 0, error_count |-> 0, submitted |-> << >>]
  /\ UNCHANGED << fs, pc, argv, local, exit_code, hist, invocations, call >>

\* a loop that gives up at the first line the tool fails on
BatchLine_stops_on_error ==
  /\ batch.pc = "loop"
  /\ batch.line_num <= Len(batch.lines)
  /\ \E marker_data \in {marker_data_of[batch.lines[batch.line_num]]} :
         IF marker_data.none
         THEN /\ batch' = [batch EXCEPT !.line_num = @ + 1]
              /\ UNCHANGED fs
         ELSE \E io_load \in {"ok", "read_failed"}, io_save \in SaveOutcomes :
              \E ran \in {run_add_marker(marker_data, batch.dry_run, fs, io_load, io_save)} :
                LET counted ==
                      [batch EXCEPT
                         !.line_num = @ + 1,
                         !.success_count = IF ran.success THEN @ + 1 ELSE @,
                         !.error_count = IF ran.success THEN @ ELSE @ + 1,
                         !.submitted =
                            Append(@, [line_num |-> batch.line_num,
                                       marker_data |-> marker_data,
                                       cmd |-> command_of(marker_data, batch.dry_run),
                                       exit |-> ran.exit])]
                IN  /\ fs' = ran.fs
                    /\ batch' = IF ran.success THEN counted
                                ELSE With([counted EXCEPT !.pc = "exited"], "exit", 1)
  /\ UNCHANGED << pc, argv, local, exit_code, hist, invocations, call >>

\* one pass of the loop of main(): a line is skipped, or handed to the tool and counted
BatchLine ==
  /\ batch.pc = "loop"
  /\ batch.line_num <= Len(batch.lines)
  /\ \E marker_data \in {marker_data_of[batch.lines[batch.line_num]]} :
         IF marker_data.none
         THEN /\ batch' = [batch EXCEPT !.line_num = @ + 1]
              /\ UNCHANGED fs
         ELSE \E io_load \in {"ok", "read_failed"}, io_save \in SaveOutcomes :
              \E ran \in {run_add_marker(marker_data, batch.dry_run, fs, io_load, io_save)} :
                    /\ fs' = ran.fs
                    /\ batch' =
                         [batch EXCEPT
                            !.line_num = @ + 1,
                            !.success_count = IF ran.success THEN @ + 1 ELSE @,
                            !.error_count = IF ran.success THEN @ ELSE @ + 1,
                            !.submitted =
                               Append(@, [line_num |-> batch.line_num,
                                          marker_data |-> marker_data,
                                          cmd |-> command_of(marker_data, batch.dry_run),
                                          exit |-> ran.exit])]
  /\ UNCHANGED << pc, argv, local, exit_code, hist, invocations, call >>

\* the summary after the loop, and the end of the run
BatchSummary ==
  /\ batch.pc = "loop"
  /\ batch.line_num > Len(batch.lines)
  /\ batch' = With(With([batch EXCEPT !.pc = "exited"], "exit", 0),
                   "summary", [successful |-> batch.success_count,
                               errors |-> batch.error_count,
                               total |-> batch.success_count + batch.error_count])
  /\ UNCHANGED << fs, pc, argv, local, exit_code, hist, invocations, call >>

NextBatch == BatchStart \/ BatchLine \/ BatchSummary

SpecBatch == InitBatch /\ [][NextBatch]_vars

\* the driver is a sequential program that runs to its end
SpecBatchFair == SpecBatch /\ WF_vars(NextBatch)

(***************************************************************************)
(* Properties of the single-marker tool, checked under Spec.               *)
(***************************************************************************)
IsDocument(file) ==
  /\ file.exists
  /\ file.valid_json
  /\ "type" \in DOMAIN file.data
  /\ file.data.type = "FeatureCollection"
  /\ "features" \in DOMAIN file.data

IdsDistinct(features) ==
  \A i, j \in 1..Len(features) :
    (i # j /\ HasId(features[i]) /\ HasId(features[j]))
      => features[i].properties.id # features[j].properties.id

\* a string without a character that is not whitespace (the empty string included)
IsBlank(s) == \A i \in 1..Len(s) : s[i] \in {" ", "\t", "\n"}

Started(p) == pc[p] # "idle"

\* C1: identifier uniqueness is an invariant of the stored documents. From documents
\* whose ids are pairwise distinct (or no document), whatever invocations have run,
\* no two features of a stored document have the same properties.id; and the id that
\* generate_next_id produced is not in the set of existing ids it was computed from.
C1_IdsUnique ==
  /\ \A path \in Paths :
       IsDocument(fs.files[path]) => IdsDistinct(fs.files[path].data.features)
  /\ \A p \in Procs :
       "marker_id" \in DOMAIN local[p] => local[p].marker_id \notin local[p].existing.ids

\* a successful invocation has inserted a marker into a document that had markers
C1_Witness ==
  \E p \in Procs :
    /\ pc[p] = "exited" /\ exit_code[p] = 0 /\ hist[p].saves = 1
    /\ LET path == get_file_path(parse_arguments(argv[p]).map_id)
       IN  /\ IsDocument(hist[p].fs_at_start.files[path])
           /\ Len(hist[p].fs_at_start.files[path].data.features) >= 1
           /\ IsDocument(fs.files[path])
           /\ Len(fs.files[path].data.features)
                = Len(hist[p].fs_at_start.files[path].data.features) + 1

\* C3: a collision reported by check_duplicates is terminal. The invocation ends with
\* a non-zero exit status, it never calls save_geojson, and the file system is what it
\* was when the invocation started.
C3_DuplicateIsTerminal ==
  \A p \in Procs :
    (hist[p].checked /\ hist[p].warnings # << >>)
      => /\ pc[p] = "exited"
         /\ exit_code[p] # 0
         /\ hist[p].saves = 0
         /\ fs = hist[p].fs_at_start

\* an invocation against an existing document has ended on a reported collision
C3_Witness ==
  \E p \in Procs :
    /\ pc[p] = "exited"
    /\ hist[p].checked
    /\ Len(hist[p].warnings) >= 1
    /\ IsDocument(fs.files[get_file_path(parse_arguments(argv[p]).map_id)])

\* what a step that changes the file system must be
C4_Step ==
  fs' # fs =>
    \E p \in Procs :
      /\ pc[p] = "save_geojson"
      /\ pc'[p] = "exited"
      /\ ~ local[p].args.dry_run
      /\ local[p].args.x >= 0 /\ local[p].args.y >= 0
      /\ ~ IsBlank(local[p].args.name)
      /\ hist[p].checked /\ hist[p].warnings = << >>
      /\ \A path \in Paths \ {get_file_path(local[p].args.map_id)} :
           fs'.files[path] = fs.files[path]

\* what holds of a preview invocation, and of a load of a missing file
C4_State ==
  \A p \in Procs :
    Started(p) =>
      /\ FLAG_DRY_RUN \in Range(argv[p]) => fs = hist[p].fs_at_start
      /\ (hist[p].loads = 1 /\ hist[p].saves = 0 /\ pc[p] # "exited")
           => LET path == local[p].file_path
              IN  ~ hist[p].fs_at_start.files[path].exists
                    => /\ local[p].geojson_data = [type |-> "FeatureCollection",
                                                   features |-> << >>]
                       /\ fs = hist[p].fs_at_start

\* C4: the file system changes only in the save of an invocation that passed
\* validation and the duplicate check and is no preview. An invocation with --dry-run
\* leaves the file system as it was (files and directories), and loading a missing
\* file gives an empty FeatureCollection and creates nothing.
C4_WritesOnlyOnInsert == [] C4_State /\ [][C4_Step]_vars

\* a preview of a valid, new marker has ended well where neither the file nor its
\* directory exists
C4_Witness ==
  \E p \in Procs :
    /\ pc[p] = "exited" /\ exit_code[p] = 0
    /\ FLAG_DRY_RUN \in Range(argv[p])
    /\ hist[p].loads = 1
    /\ fs.dirs = {}
    /\ ~ fs.files[get_file_path(parse_arguments(argv[p]).map_id)].exists

\* C5: validation precedes all file I/O. With a negative coordinate or a blank name
\* the invocation ends with a non-zero exit status in validate_inputs, without a call
\* of load_geojson or save_geojson and with the file system untouched; and no
\* invocation is at, or past, load_geojson with such arguments.
C5_ValidationFirst ==
  \A p \in Procs :
    (Started(p) /\ parse_arguments(argv[p]).status = "ok") =>
      LET a == parse_arguments(argv[p])
          invalid == a.x < 0 \/ a.y < 0 \/ IsBlank(a.name)
      IN  /\ invalid =>
                /\ pc[p] \in {"parse_arguments", "validate_inputs", "exited"}
                /\ pc[p] = "exited" => exit_code[p] = 1
                /\ hist[p].loads = 0 /\ hist[p].saves = 0
                /\ fs = hist[p].fs_at_start
          /\ (pc[p] = "load_geojson" \/ hist[p].loads > 0) => ~ invalid

\* an invocation whose name is only whitespace, with coordinates that are fine, has
\* ended in validate_inputs
C5_Witness ==
  \E p \in Procs :
    /\ pc[p] = "exited" /\ exit_code[p] = 1 /\ hist[p].loads = 0
    /\ LET a == parse_arguments(argv[p])
       IN  a.status = "ok" /\ a.x >= 0 /\ a.y >= 0 /\ a.name = << " " >>


(***************************************************************************)
(* The functions of scripts/add_marker.py called directly, as               *)
(* test_add_marker.py calls them, on inputs drawn from bounded sets; a      *)
(* behaviour is one call.                                                   *)
(***************************************************************************)
Map_forest == << "f", "o", "r", "e", "s", "t" >>
Map_desert == << "d", "e", "s", "e", "r", "t" >>
UnitMapIds == {Map_forest, Map_desert}

Id(map_id, suffix) == (map_id \o << "-" >>) \o suffix

UnitIdPool ==
  { Id(Map_forest, << "0", "0", "1" >>),
    Id(Map_forest, << "0", "0", "2" >>),
    Id(Map_forest, << "0", "0", "3" >>),
    Id(Map_forest, << "0", "0", "5" >>),
    Id(Map_forest, << "0", "0", "0", "5" >>),
    Id(Map_forest, << "9", "9", "9" >>),
    Id(Map_forest, << "9", "9", "9", "9" >>),
    Id(Map_forest, << "x", "1" >>),
    Map_forest \o << "0", "0", "8" >>,
    Id(Map_desert, << "0", "0", "1" >>) }

Id_t1 == << "t", "-", "1" >>
Id_t2 == << "t", "-", "2" >>
UnitCandidateIds == {Id_t1, Id_t2}
UnitCoords == {<< 5, 5 >>, << 9, 9 >>}
UnitNames == {<< "A" >>, << "B" >>}

UnitFeatures ==
  { create_marker_feature(<< "f", "-", "0", "0", "2" >>, << "A" >>, S_card, 1, 1),
    create_marker_feature(<< "f", "-", "0", "1", "0" >>, << "B" >>, S_log, 2, 2),
    create_marker_feature(<< "f", "-", "9" >>, << "C" >>, S_bgm, 3, 3),
    [type |-> "Feature", geometry |-> [type |-> "Point", coordinates |-> << 4, 4 >>]] }

UnitNewFeatures ==
  { create_marker_feature(<< "f", "-", "0", "0", "3" >>, << "D" >>, S_card, 5, 5),
    create_marker_feature(<< "f", "-", "1", "0", "0", "0" >>, << "D" >>, S_card, 5, 5),
    create_marker_feature(<< "f", "-", "0", "0", "2" >>, << "D" >>, S_enemy, 6, 6) }

UnitDocs ==
  { Doc(fseq) : fseq \in SeqsUpTo(UnitFeatures, MaxFeatures) }
  \cup { [type |-> "FeatureCollection"] }

InitUnit ==
  /\ fs = [dirs |-> {}, files |-> [p \in Paths |-> NoFile]]
  /\ pc = [p \in Procs |-> "idle"]
  /\ argv = [p \in Procs |-> << >>]
  /\ local = [p \in Procs |-> NoLocals]
  /\ exit_code = [p \in Procs |-> -1]
  /\ hist = [p \in Procs |-> NoHist]
  /\ invocations = 0
  /\ call = NoCall
  /\ batch = BatchIdle

CallGenerateNextId ==
  /\ call = NoCall
  /\ \E m \in UnitMapIds, S \in SUBSET UnitIdPool :
       call' = [fn |-> "generate_next_id", map_id |-> m, existing_ids |-> S,
                result |-> generate_next_id(m, S)]
  /\ UNCHANGED << fs, pc, argv, local, exit_code, hist, invocations, batch >>

CallCheckDuplicates ==
  /\ call = NoCall
  /\ \E id \in UnitCandidateIds, xy \in UnitCoords, n \in UnitNames,
        ids \in SUBSET UnitCandidateIds, coords \in SUBSET UnitCoords,
        names \in SUBSET UnitNames :
       call' = [fn |-> "check_duplicates", marker_id |-> id, x |-> xy[1], y |-> xy[2],
                name |-> n, existing_ids |-> ids, existing_coords |-> coords,
                existing_names |-> names,
                warnings |-> duplicate_warnings(id, xy[1], xy[2], n, ids, coords, names),
                result |-> check_duplicates(id, xy[1], xy[2], n, ids, coords, names)]
  /\ UNCHANGED << fs, pc, argv, local, exit_code, hist, invocations, batch >>

CallAddMarkerToGeojson ==
  /\ call = NoCall
  /\ \E d \in UnitDocs, f \in UnitNewFeatures :
       call' = [fn |-> "add_marker_to_geojson", geojson_data |-> d, marker_feature |-> f,
                result |-> add_marker_to_geojson(d, f)]
  /\ UNCHANGED << fs, pc, argv, local, exit_code, hist, invocations, batch >>

NextUnit == CallGenerateNextId \/ CallCheckDuplicates \/ CallAddMarkerToGeojson

SpecUnit == InitUnit /\ [][NextUnit]_vars


(***************************************************************************)
(* Properties of the functions, checked under SpecUnit.                    *)
(***************************************************************************)
\* the ids of S that count for map m: "m-" and then digits only
IdsOfMap(m, S) ==
  { e \in S : /\ Len(e) > Len(m) + 1
              /\ SubSeq(e, 1, Len(m)) = m
              /\ e[Len(m) + 1] = "-"
              /\ \A i \in (Len(m) + 2)..Len(e) : IsDigitChar(e[i]) }

\* the number that the digits after "m-" of an id read as
NumberOf(m, e) == DigitsToInt(SubSeq(e, Len(m) + 2, Len(e)))

\* C2: the id that generate_next_id returns is "m-" and a number, which is 1 when no
\* id of S is "m-" followed by digits only, and otherwise one more than the highest
\* number of such an id; ids of other maps and ids with another suffix do not count.
C2_NextNumber ==
  call.fn = "generate_next_id" =>
    LET m == call.map_id
        S == call.existing_ids
        r == call.result
    IN  /\ r \in IdsOfMap(m, {r})
        /\ \A e \in IdsOfMap(m, S) : NumberOf(m, e) < NumberOf(m, r)
        /\ \/ IdsOfMap(m, S) = {} /\ NumberOf(m, r) = 1
           \/ \E e \in IdsOfMap(m, S) : NumberOf(m, r) = NumberOf(m, e) + 1
        /\ (m = Map_forest /\ S = { Id(Map_forest, << "0", "0", "1" >>),
                                    Id(Map_forest, << "0", "0", "2" >>),
                                    Id(Map_forest, << "0", "0", "5" >>) })
             => NumberOf(m, r) = 6
        /\ (m = Map_forest /\ S = { Id(Map_forest, << "0", "0", "1" >>),
                                    Id(Map_desert, << "0", "0", "1" >>),
                                    Id(Map_forest, << "0", "0", "3" >>) })
             => NumberOf(m, r) = 4

\* generate_next_id has been called for map forest on forest-001, desert-001,
\* forest-003 and returned the number 4
C2_Witness ==
  /\ call.fn = "generate_next_id"
  /\ call.map_id = Map_forest
  /\ call.existing_ids = { Id(Map_forest, << "0", "0", "1" >>),
                           Id(Map_desert, << "0", "0", "1" >>),
                           Id(Map_forest, << "0", "0", "3" >>) }
  /\ call.result = Id(Map_forest, << "0", "0", "4" >>)

Count(P(_), seq) == Cardinality({ i \in 1..Len(seq) : P(seq[i]) })

\* C6: check_duplicates tests the three collisions each on its own. It returns True
\* iff the id is not an existing id, the coordinates are not existing coordinates and
\* the name is not an existing name; otherwise its list of reasons has exactly one
\* entry for each collision that holds.
C6_AllCollisionsReported ==
  call.fn = "check_duplicates" =>
    LET idHit == call.marker_id \in call.existing_ids
        coordHit == << call.x, call.y >> \in call.existing_coords
        nameHit == call.name \in call.existing_names
        IsIdReason(w) == w = "ID already exists"
        IsCoordReason(w) == w = "Coordinates already exist"
        IsNameReason(w) == w = "Name already exists"
    IN  /\ call.result <=> (~ idHit /\ ~ coordHit /\ ~ nameHit)
        /\ Count(IsIdReason, call.warnings) = (IF idHit THEN 1 ELSE 0)
        /\ Count(IsCoordReason, call.warnings) = (IF coordHit THEN 1 ELSE 0)
        /\ Count(IsNameReason, call.warnings) = (IF nameHit THEN 1 ELSE 0)
        /\ Len(call.warnings) = (IF idHit THEN 1 ELSE 0) + (IF coordHit THEN 1 ELSE 0)
                                  + (IF nameHit THEN 1 ELSE 0)

\* the candidate (t-2, (5, 5), "A") against the existing t-1, (5, 5) and "A" has been
\* refused with two reasons
C6_Witness ==
  /\ call.fn = "check_duplicates"
  /\ call.marker_id = Id_t2 /\ call.x = 5 /\ call.y = 5 /\ call.name = << "A" >>
  /\ call.existing_ids = {Id_t1}
  /\ call.existing_coords = {<< 5, 5 >>}
  /\ call.existing_names = {<< "A" >>}
  /\ ~ call.result
  /\ Len(call.warnings) = 2

RECURSIVE LexLeq(_, _)
\* the lexicographic order of strings, character by character from the left
LexLeq(a, b) ==
  IF a = << >> THEN TRUE
  ELSE IF b = << >> THEN FALSE
  ELSE IF ord(a[1]) < ord(b[1]) THEN TRUE
  ELSE IF ord(a[1]) > ord(b[1]) THEN FALSE
  ELSE LexLeq(Tail(a), Tail(b))

\* the id a feature is ordered by: its properties.id, the empty string without one
IdOrEmpty(f) ==
  IF "properties" \in DOMAIN f /\ "id" \in DOMAIN f.properties
  THEN f.properties.id ELSE << >>

SortedById(features) ==
  \A i \in 1..(Len(features) - 1) :
    LexLeq(IdOrEmpty(features[i]), IdOrEmpty(features[i + 1]))

Occurrences(f, seq) == Cardinality({ i \in 1..Len(seq) : seq[i] = f })

IsPermutation(a, b) ==
  /\ Len(a) = Len(b)
  /\ \A f \in Range(a) \cup Range(b) : Occurrences(f, a) = Occurrences(f, b)

\* C7: after add_marker_to_geojson the features are in non-decreasing order of their id
\* strings (lexicographic, a feature without id as the empty string), the new
\* feature is among them, and they are a permutation of the features before plus the
\* new one.
C7_SortedAfterInsert ==
  call.fn = "add_marker_to_geojson" =>
    LET before == IF "features" \in DOMAIN call.geojson_data
                  THEN call.geojson_data.features ELSE << >>
        after == call.result.features
    IN  /\ SortedById(after)
        /\ \E i \in 1..Len(after) : after[i] = call.marker_feature
        /\ IsPermutation(after, Append(before, call.marker_feature))

\* a marker has been added to an unsorted document of three features, and its place
\* is not the end
C7_Witness ==
  /\ call.fn = "add_marker_to_geojson"
  /\ "features" \in DOMAIN call.geojson_data
  /\ Len(call.geojson_data.features) = 3
  /\ ~ SortedById(call.geojson_data.features)
  /\ call.result.features[4] # call.marker_feature

\* C8: generate_next_id writes the number with 4 digits, zero-padded: for a next
\* number below 10000 the id is the map identifier, a hyphen and exactly 4 digits.
C8_FourDigits ==
  call.fn = "generate_next_id" =>
    LET prefix == call.map_id \o << "-" >>
        suffix == SubSeq(call.result, Len(prefix) + 1, Len(call.result))
    IN  DigitsToInt(suffix) < 10000 =>
          /\ SubSeq(call.result, 1, Len(prefix)) = prefix
          /\ Len(suffix) = 4
          /\ \A i \in 1..Len(suffix) : IsDigitChar(suffix[i])


(***************************************************************************)
(* Properties of the batch driver, checked under SpecBatch and             *)
(* SpecBatchFair.                                                          *)
(***************************************************************************)
\* C9: for every data line the batch driver submits, the tool receives the map_id,
\* category, name, x and y of the line as its own map identifier, category, name, x
\* and y; so the tool does not turn down the arguments of a line with a valid
\* category and a name that is not blank.
C9_ArgsReachTool ==
  (batch.pc \in {"loop", "exited"} /\ batch.input_exists) =>
    \A k \in 1..Len(batch.submitted) :
      LET line == batch.submitted[k].marker_data
          got == parse_arguments(batch.submitted[k].cmd)
      IN  /\ got.status = "ok"
          /\ got.map_id = line.map_id
          /\ got.category = line.category
          /\ got.name = line.name
          /\ got.x = line.x
          /\ got.y = line.y
          /\ (line.category \in Range(VALID_CATEGORIES) /\ ~ IsBlank(line.name))
               => batch.submitted[k].exit # 2

\* the lines of the input that are data lines: neither blank, nor a comment, and of
\* the form map_id x y category "name" with an optional "description"
DataLines == {Line_f_A, Line_d_B, Line_f_x}

RECURSIVE DataLineNumbers(_, _)
\* the numbers of the data lines among the first n lines, in file order
DataLineNumbers(lines, n) ==
  IF n = 0 THEN << >>
  ELSE DataLineNumbers(lines, n - 1)
         \o (IF lines[n] \in DataLines THEN << n >> ELSE << >>)

C10_Counts ==
  (batch.pc \in {"loop", "exited"} /\ batch.input_exists) =>
    /\ [k \in 1..Len(batch.submitted) |-> batch.submitted[k].line_num]
         = DataLineNumbers(batch.lines, batch.line_num - 1)
    /\ batch.success_count + batch.error_count = Len(batch.submitted)
    /\ batch.pc = "exited" =>
         /\ batch.line_num = Len(batch.lines) + 1
         /\ batch.exit = 0
         /\ batch.summary.successful + batch.summary.errors = Len(batch.submitted)
         /\ batch.summary.total = Len(batch.submitted)

C11_NoPartialWrite ==
  [][\A p \in Procs :
       (pc[p] = "save_geojson" /\ pc'[p] = "exited") =>
         LET path == local[p].file_path
         IN  fs'.files[path] \in {fs.files[path], FileOf(local[p].updated_geojson)}]_vars

(***************************************************************************)
(* Tool processes side by side: main() takes no lock, so a second process  *)
(* may be started while another one is between its load and its save.      *)
(***************************************************************************)
\* valid invocations of one map, with and without --dry-run, and one of another map
ConcurrentArgvs ==
  { a \in UsageArgvs :
      /\ a[2] = S_card
      /\ a[3] \in {<< "A" >>, << "B" >>}
      /\ a[4] \in {str(0), str(1)}
      /\ a[5] = str(0)
      /\ a[1] = Map_d => (a[3] = << "A" >> /\ a[4] = str(0) /\ Len(a) = 5) }

ConcurrentFileSystems ==
  { f \in InitialFileSystems :
      /\ f.files[get_file_path(Map_d)] = NoFile
      /\ f.files[get_file_path(Map_f)]
           \in {NoFile, FileOf(SortedDoc), FileOf(EditedDoc)} }

InitConcurrent ==
  /\ fs \in ConcurrentFileSystems
  /\ pc = [p \in Procs |-> "idle"]
  /\ argv = [p \in Procs |-> << >>]
  /\ local = [p \in Procs |-> NoLocals]
  /\ exit_code = [p \in Procs |-> -1]
  /\ hist = [p \in Procs |-> NoHist]
  /\ invocations = 0
  /\ call = NoCall
  /\ batch = BatchIdle

\* the tool is started from a shell, whether or not another process is running
Spawn(p) ==
  /\ pc[p] = "idle"
  /\ \A q \in Procs : q < p => pc[q] # "idle"
  /\ invocations < MaxSpawns
  /\ \E a \in ConcurrentArgvs : argv' = [argv EXCEPT ![p] = a]
  /\ pc' = [pc EXCEPT ![p] = "parse_arguments"]
  /\ local' = [local EXCEPT ![p] = NoLocals]
  /\ exit_code' = [exit_code EXCEPT ![p] = -1]
  /\ hist' = [hist EXCEPT ![p] = [NoHist EXCEPT !.fs_at_start = fs]]
  /\ invocations' = invocations + 1
  /\ UNCHANGED << fs, call, batch >>

NextConcurrent == \E p \in Procs : Spawn(p) \/ ToolStep(p) \/ Wait(p)

SpecConcurrent == InitConcurrent /\ [][NextConcurrent]_vars

(***************************************************************************)
(* Properties of processes side by side, checked under SpecConcurrent.     *)
(***************************************************************************)
\* the process has reported success after a save
Succeeded(q) == pc[q] = "exited" /\ exit_code[q] = 0 /\ hist[q].saves = 1

\* the document has a marker of this name at these coordinates
HoldsMarker(data, name, x, y) ==
  \E i \in 1..Len(FeaturesOf(data)) :
    LET f == FeaturesOf(data)[i]
    IN  /\ HasName(f) /\ f.properties.name = name
        /\ HasCoords(f) /\ f.geometry.coordinates = << x, y >>

\* the save of p ends well where q, an invocation for the same map with another
\* name and other coordinates, has reported success before
C12_Step(p, q) ==
  LET mine == local[p].args
      theirs == parse_arguments(argv[q])
      after == fs'.files[local[p].file_path]
  IN  ( /\ p # q
        /\ pc[p] = "save_geojson" /\ pc'[p] = "exited" /\ exit_code'[p] = 0
        /\ Succeeded(q)
        /\ theirs.map_id = mine.map_id
        /\ theirs.name # mine.name
        /\ << theirs.x, theirs.y >> # << mine.x, mine.y >> )
      => /\ IsDocument(after)
         \* both had loaded before either saved
         /\ hist[q].loaded = local[p].geojson_data =>
              /\ hist[q].marker.properties.id = local[p].marker_id
              /\ HoldsMarker(after.data, mine.name, mine.x, mine.y)
              /\ ~ HoldsMarker(after.data, theirs.name, theirs.x, theirs.y)
              /\ Len(after.data.features) = Len(FeaturesOf(hist[q].loaded)) + 1
         \* one after the other: p had loaded what q saved
         /\ hist[q].written = local[p].geojson_data =>
              /\ hist[q].marker.properties.id # local[p].marker_id
              /\ HoldsMarker(after.data, mine.name, mine.x, mine.y)
              /\ HoldsMarker(after.data, theirs.name, theirs.x, theirs.y)
              /\ Len(after.data.features) = Len(FeaturesOf(hist[q].loaded)) + 2

\* C12: invocations for the same map side by side are not safe. When two invocations
\* without --dry-run, with distinct names and coordinates, have both loaded before
\* either saves, both report success with the same generated id and the file holds
\* afterwards the marker of the one that saved last and not that of the other. When
\* one has loaded what the other saved, both markers are in the file with distinct ids.
C12_LastWriterWins == [][\A p, q \in Procs : C12_Step(p, q)]_vars

\* two invocations for one map have both reported success with the same id, and the
\* file holds what the second wrote, without the marker of the first
C12_Witness ==
  \E p, q \in Procs :
    LET a == parse_arguments(argv[p])
        b == parse_arguments(argv[q])
    IN  /\ p # q /\ Succeeded(p) /\ Succeeded(q)
        /\ a.map_id = b.map_id /\ a.name # b.name /\ << a.x, a.y >> # << b.x, b.y >>
        /\ hist[p].loaded = hist[q].loaded
        /\ hist[p].marker.properties.id = hist[q].marker.properties.id
        /\ fs.files[get_file_path(a.map_id)] = FileOf(hist[p].written)
        /\ HoldsMarker(hist[p].written, a.name, a.x, a.y)
        /\ ~ HoldsMarker(hist[p].written, b.name, b.x, b.y)

=============================================================================
